---------------------------- MODULE Spec2Model ----------------------------
(***************************************************************************)
(* GitMiner v3: the rate-limit-aware paginated code search                 *)
(* (gitminer/github_client.py) and the batch loop that drives it           *)
(* (gitminer_v3.py).                                                       *)
(*                                                                         *)
(* The upstream (GitHub) is the environment: every HTTP exchange picks its *)
(* outcome nondeterministically.  time.time() is an environment input too. *)
(***************************************************************************)
EXTENDS Integers, Sequences, FiniteSets, TLC

(***************************************************************************)
(* Bounds of the model.                                                    *)
(***************************************************************************)
\* largest per_page of the small configurations
MaxPerPage == 2
\* largest max_results of the small configurations
MaxResults == 3
\* the upstream answers 403 at most this many times during one search_code
Max403 == 2
\* number of dorks loaded by _load_dorks in the batch specification
MaxDorks == 2
\* largest max_results of the batch specification
MaxBatchResults == 2
\* longest result list handed to _process_search_results on its own
MaxItems == 3
\* longest generated text after a label match
MaxTail == 3
\* most lines of a generated file of several lines
MaxLines == 2
\* most words of a generated label
MaxWords == 2
\* most entries of a generated configuration file
MaxEntries == 2
\* most persistence writes of a generated sequence of writes
MaxWrites == 3

VARIABLES
    perPage,      \* search_code's per_page argument
    maxResults,   \* search_code's max_results argument
    pc,           \* position of the single thread of control
    dork,         \* index of the dork run() is processing
    page,         \* search_code: local `page`
    results,      \* search_code: local `results`
    response,     \* search_code: local `response` (last HTTP response received)
    snapshot,     \* last value returned by get_rate_limits (local `resources`)
    now,          \* last value read from time.time()
    lastSleep,    \* the most recent time.sleep: who slept and for how long
    guardLog,     \* what the last ensure_rate_limit call did: fetches and sleeps
    reqPage,      \* params["page"] of the last search request issued
    requests,     \* history: search requests issued by this search_code call
    guards,       \* history: ensure_rate_limit calls made by this search_code call
    n403,         \* history: 403 answers received by this search_code call
    served,       \* history: the successfully answered pages, in order
    cause,        \* history: why each dork's search_code ended
    outcome,      \* what run() observed of each dork's search_code
    itemIdx,      \* _process_search_results: position in `results`
    processed,    \* _process_search_results: local `processed_results`
    download,     \* the last download_file_content call and what it returned
    allResults,   \* run(): local `all_results`
    searchHistory,  \* database table search_history
    downloadedFiles, \* database table downloaded_files
    findingRows,  \* database table findings
    writeLog,     \* history: the persistence writes made, with their outcome
    phases,       \* history: what run() did after the loop over the dorks
    readable,     \* scan_file: whether the file can be opened and read
    lines,        \* scan_file: local `lines`, each line a sequence of characters
    patterns,     \* PatternAnalyzer.patterns: the generic patterns, in order
    labels,       \* PatternAnalyzer.compiled_labels: the label patterns, in order
    maxContext,   \* scan_file's max_context_length argument
    patternFindings, \* what _scan_with_patterns returned to scan_file
    labelFindings,   \* what _scan_with_labels returned to scan_file
    findings,     \* what scan_file returned
    label,        \* classify_severity's argument
    severity,     \* what classify_severity returned
    labelsFile,   \* the labels YAML file: readable or not, and its entries
    patternsFile, \* the patterns YAML file: readable or not, and its entries
    configLabels, \* ConfigManager.labels: regex sources and label names
    configPatterns \* ConfigManager.patterns: names and compiled patterns

svars == <<page, results, response, snapshot, now, lastSleep, guardLog,
           reqPage, requests, guards, n403, served>>
rvars == <<itemIdx, processed, download, allResults, searchHistory,
           downloadedFiles>>
dvars == <<findingRows, writeLog>>
cvars == <<labelsFile, patternsFile, configLabels, configPatterns>>
avars == <<readable, lines, patterns, labels, maxContext, patternFindings,
           labelFindings, findings, label, severity, cvars>>
vars == <<perPage, maxResults, pc, dork, cause, outcome, svars, rvars,
          dvars, phases, avars>>

(***************************************************************************)
(* Helpers.                                                                *)
(***************************************************************************)
Max(a, b) == IF a >= b THEN a ELSE b

\* ceil(a / b) for a >= 0, b >= 1
CeilDiv(a, b) == (a + b - 1) \div b

RECURSIVE Concat(_)
Concat(ss) == IF ss = <<>> THEN <<>> ELSE Head(ss) \o Concat(Tail(ss))

IsPrefix(s, t) == Len(s) <= Len(t) /\ SubSeq(t, 1, Len(s)) = s

\* a configuration file that cannot be loaded
NoFile == [readable |-> FALSE, entries |-> <<>>]

\* the configuration is not being loaded
ConfigIdle ==
    /\ labelsFile = NoFile
    /\ patternsFile = NoFile
    /\ configLabels = <<>>
    /\ configPatterns = <<>>

\* no file is being scanned and no label classified
AnalysisIdle ==
    /\ ConfigIdle
    /\ readable = FALSE
    /\ lines = <<>>
    /\ patterns = <<>>
    /\ labels = <<>>
    /\ maxContext = 0
    /\ patternFindings = <<>>
    /\ labelFindings = <<>>
    /\ findings = <<>>
    /\ label = [present |-> FALSE, text |-> <<>>]
    /\ severity = ""

(***************************************************************************)
(* The environment's value domains.                                        *)
(***************************************************************************)
\* values time.time() returns (epoch seconds, truncated by int())
NowValues == {0, 20}

\* the reset epoch the upstream reports (header X-RateLimit-Reset, or the
\* "reset" field of a quota resource)
ResetValues == {12}

\* quota resource names ensure_rate_limit and _handle_rate_limit_error look at
ResourceNames == {"code_search", "search", "core"}

ResourceInfo == [remaining : 0..1, reset : ResetValues]

\* a quota resource of the upstream that neither of them looks at
OtherResourceNames == {"graphql"}

\* What get_rate_limits returns: None (ok = FALSE: exception or non-200), or
\* the "resources" dictionary of the body (possibly empty, possibly with
\* none of the resources looked at).
Snapshots ==
    {[ok |-> FALSE, res |-> <<>>]} \cup
    {[ok |-> TRUE, res |-> r] : r \in UNION {[S -> ResourceInfo] : S \in SUBSET ResourceNames}}
    \cup {[ok |-> TRUE, res |-> r] : r \in [OtherResourceNames -> ResourceInfo]}

NoSnapshot == [ok |-> FALSE, res |-> <<>>]

\* non-success statuses other than 403
OtherStatuses == {401, 422, 500}

NoResponse == [status |-> 0, hasReset |-> FALSE, reset |-> 0]

NoSleep == [who |-> "none", secs |-> 0]

\* The sizes of the item list a 200 answer may carry: any size near the
\* interesting ones (empty, one, five, one short of a full page, full, over-full).
PageSizes(P) == {n \in 0..(P + 1) : n <= 1 \/ n = 5 \/ n >= P - 1}

\* The items of the page `p` of size `n`, in server order.
PageItems(p, n) == [i \in 1..n |-> [repository |-> "repo", path |-> <<p, i>>]]

(***************************************************************************)
(* GitHubClient.ensure_rate_limit                                          *)
(***************************************************************************)
\* faulty variant: a dictionary with none of the three resources taken for
\* an empty one
Falsy_without_known_resource(snap) ==
    ~snap.ok \/ DOMAIN snap.res \cap ResourceNames = {}

\* `if not resources`: None and the empty dictionary are both falsy
Falsy(snap) == ~snap.ok \/ DOMAIN snap.res = {}

\* faulty variant: the general search bucket placed before code_search
candidates_search_first(snap, prefer_code_search) ==
    LET c1 == IF "search" \in DOMAIN snap.res THEN <<"search">> ELSE <<>>
        c2 == IF prefer_code_search /\ "code_search" \in DOMAIN snap.res
              THEN c1 \o <<"code_search">> ELSE c1
    IN  IF c2 = <<>> /\ "core" \in DOMAIN snap.res THEN <<"core">> ELSE c2

\* the candidates list, as resource names in the order they are appended
candidates(snap, prefer_code_search) ==
    LET c1 == IF prefer_code_search /\ "code_search" \in DOMAIN snap.res
              THEN <<"code_search">> ELSE <<>>
        c2 == IF "search" \in DOMAIN snap.res
              THEN c1 \o <<"search">> ELSE c1
    IN  IF c2 = <<>> /\ "core" \in DOMAIN snap.res THEN <<"core">> ELSE c2

\* the events of one ensure_rate_limit call
FetchEvent == [ev |-> "fetch", secs |-> 0]

SleepEvent(d) == [ev |-> "sleep", secs |-> d]

\* time.sleep(5) of the branch taken when the limits cannot be checked
conservative_wait == 5

\* faulty variant: the candidates loop going on to the next candidate after
\* a resource with capacity or after a sleep, instead of returning
RECURSIVE candidates_loop_no_return(_, _, _, _)
candidates_loop_no_return(cs, snap, t, needed) ==
    IF cs = <<>> THEN <<>>
    ELSE LET info == snap.res[Head(cs)]
             rest == candidates_loop_no_return(Tail(cs), snap, t, needed)
         IN  IF info.remaining >= needed THEN rest
             ELSE <<SleepEvent(Max(0, info.reset - t + 1))>> \o rest

\* `for resource_name, resource_info in candidates`: both branches of the
\* body return, so only the first candidate is ever looked at
candidates_loop(cs, snap, t, needed) ==
    IF cs = <<>> THEN <<>>
    ELSE LET info == snap.res[Head(cs)]
         IN  IF info.remaining >= needed THEN <<>>
             ELSE <<SleepEvent(Max(0, info.reset - t + 1))>>

\* faulty variant: the snapshot fetched again after the conservative wait
ensure_rate_limit_log_refetching(snap, t, needed) ==
    <<FetchEvent>> \o
        (IF Falsy(snap) THEN <<SleepEvent(conservative_wait), FetchEvent>>
         ELSE candidates_loop(candidates(snap, TRUE), snap, t, needed))

\* everything one ensure_rate_limit call does, for the snapshot `snap` that
\* its get_rate_limits call returns and the time `t` that time.time() returns
ensure_rate_limit_log(snap, t, needed) ==
    <<FetchEvent>> \o
        (IF Falsy(snap) THEN <<SleepEvent(conservative_wait)>>
         ELSE candidates_loop(candidates(snap, TRUE), snap, t, needed))

\* the sleeps of a log, in order
SleepsOf(log) == SelectSeq(log, LAMBDA e : e.ev = "sleep")

\* the sleep ensure_rate_limit performs for the snapshot `snap` read at time `t`
ensure_rate_limit_sleep(snap, t, needed) ==
    LET ss == SleepsOf(ensure_rate_limit_log(snap, t, needed))
    IN  IF ss = <<>> THEN NoSleep
        ELSE [who |-> "guard", secs |-> ss[Len(ss)].secs]

(***************************************************************************)
(* GitHubClient._handle_rate_limit_error                                   *)
(***************************************************************************)
\* faulty variant: the wait without its 10 s floor, as ensure_rate_limit computes it
wait_seconds_no_floor(reset_timestamp, t) == Max(0, reset_timestamp - t + 1)

\* wait_seconds of both branches
wait_seconds(reset_timestamp, t) == Max(10, reset_timestamp - t + 1)

\* the else branch can compute a wait only from a snapshot with a "search" entry
HasSearchQuota(snap) == ~Falsy(snap) /\ "search" \in DOMAIN snap.res

(***************************************************************************)
(* GitHubClient.download_file_content                                      *)
(***************************************************************************)
\* what the contents API does with the descriptor request: requests.get
\* raises; a status other than 200; 200 with a body json() cannot decode;
\* 200 with a descriptor without download_url; 200 with a download_url
DescriptorAnswers == {"exception", "status_other", "bad_body", "no_url", "url"}

\* what the raw host does with the content request: requests.get raises; a
\* status other than 200; 200 with an empty body; 200 with a non-empty body
RawAnswers == {"exception", "status_other", "empty", "bytes"}

NoDownload ==
    [repository |-> "", path |-> <<>>, ret |-> "None", reqs |-> <<>>,
     raised |-> FALSE]

\* faulty variant: the content request made outside the try block, so that
\* its exception leaves the function
download_file_content_unprotected(repository, path, d, r) ==
    LET call == [repository |-> repository, path |-> path, ret |-> "None",
                 reqs |-> <<"contents">>, raised |-> FALSE]
    IN  IF d # "url" THEN call
        ELSE [call EXCEPT !.reqs = <<"contents", "raw">>,
                          !.raised = (r = "exception"),
                          !.ret = IF r \in {"empty", "bytes"} THEN r ELSE "None"]

\* faulty variant: the download asking for the quota snapshot first, as
\* search_code does
download_file_content_guarded(repository, path, d, r) ==
    LET plain == download_file_content_unprotected(repository, path, d, r)
    IN  [plain EXCEPT !.reqs = <<"rate_limit">> \o plain.reqs,
                      !.raised = FALSE]

\* download_file_content(repository, path) when the descriptor request is
\* answered with `d` and the content request, if made, with `r`: the requests
\* issued, the value returned and whether an exception left the function
download_file_content(repository, path, d, r) ==
    LET call == [repository |-> repository, path |-> path, ret |-> "None",
                 reqs |-> <<"contents">>, raised |-> FALSE]
    IN  CASE d = "exception"    -> call   \* except Exception: return None
          [] d = "status_other" -> call   \* falls through to return None
          [] d = "bad_body"     -> call   \* json() raises: except, return None
          [] d = "no_url"       -> call   \* `if download_url` is false
          [] d = "url" ->
                LET both == [call EXCEPT !.reqs = <<"contents", "raw">>]
                IN  CASE r = "exception"    -> both
                      [] r = "status_other" -> both
                      [] r \in {"empty", "bytes"} -> [both EXCEPT !.ret = r]

(***************************************************************************)
(* GitHubClient.search_code                                                *)
(***************************************************************************)
\* result_item built from an API item
result_item(item) == [repository |-> item.repository, path |-> item.path]

\* faulty variant: the loop without `if len(results) >= max_results: break`
RECURSIVE append_items_no_cap(_, _, _)
append_items_no_cap(res, items, max_results) ==
    IF items = <<>> THEN res
    ELSE append_items_no_cap(Append(res, result_item(Head(items))), Tail(items),
                             max_results)

\* faulty variant: the loop inserting each item at the front of the list
RECURSIVE append_items_front(_, _, _)
append_items_front(res, items, max_results) ==
    IF items = <<>> \/ Len(res) >= max_results THEN res
    ELSE append_items_front(<<result_item(Head(items))>> \o res, Tail(items),
                            max_results)

\* the `for item in items` loop with its cap check
RECURSIVE append_items(_, _, _)
append_items(res, items, max_results) ==
    IF items = <<>> \/ Len(res) >= max_results THEN res
    ELSE append_items(Append(res, result_item(Head(items))), Tail(items), max_results)

\* faulty variant: the loop entered at least once whatever the cap
loop_continues_first_pass(res, max_results) ==
    res = <<>> \/ Len(res) < max_results

\* faulty variant: an off-by-one loop condition
loop_continues_off_by_one(res, max_results) == Len(res) <= max_results

\* the condition of the while loop
loop_continues(res, max_results) == Len(res) < max_results

\* faulty variant: the 403 path advancing the page counter
page_after_403_advancing(p) == p + 1

\* the page requested after a 403 (`continue` leaves `page` alone)
page_after_403(p) == p

\* faulty variant: the 403 path retrying the request without passing the guard
pc_after_403_unguarded == "sc_request"

\* where control goes after a handled 403: back to the loop head
pc_after_403 == "sc_while"

\* faulty variant: only an empty page ends the search
is_last_page_empty_only(items, per_page) == items = <<>>

\* `if len(items) < per_page: break` (after `if not items: break`)
is_last_page(items, per_page) == items = <<>> \/ Len(items) < per_page

SearchLocalsInit ==
    /\ page = 1
    /\ results = <<>>
    /\ response = NoResponse
    /\ snapshot = NoSnapshot
    /\ now = 0
    /\ lastSleep = NoSleep
    /\ guardLog = <<>>
    /\ reqPage = 0
    /\ requests = 0
    /\ guards = 0
    /\ n403 = 0
    /\ served = <<>>

\* while len(results) < max_results: false, fall out of the loop and return
search_loop_exit ==
    /\ pc = "sc_while"
    /\ ~loop_continues(results, maxResults)
    /\ pc' = "sc_returned"
    /\ cause' = [cause EXCEPT ![dork] = "cap"]
    /\ UNCHANGED <<phases, dvars, avars, perPage, maxResults, dork, outcome, svars, rvars>>

\* self.ensure_rate_limit(needed=1, prefer_code_search=True)
ensure_rate_limit ==
    /\ pc = "sc_while"
    /\ loop_continues(results, maxResults)
    /\ \E snap \in Snapshots, t \in NowValues :
          /\ snapshot' = snap
          /\ now' = t
          /\ lastSleep' = ensure_rate_limit_sleep(snap, t, 1)
          /\ guardLog' = ensure_rate_limit_log(snap, t, 1)
    /\ guards' = guards + 1
    /\ pc' = "sc_request"
    /\ UNCHANGED <<phases, dvars, avars, perPage, maxResults, dork, cause, outcome, page, results,
                   response, reqPage, requests, n403, served, rvars>>

\* requests.get raises: print and break; the function returns `results`
search_transport_failure ==
    /\ pc = "sc_request"
    /\ guardLog' = <<>>
    /\ requests' = requests + 1
    /\ reqPage' = page
    /\ snapshot' = NoSnapshot
    /\ pc' = "sc_returned"
    /\ cause' = [cause EXCEPT ![dork] = "transport"]
    /\ UNCHANGED <<phases, dvars, avars, perPage, maxResults, dork, outcome, page, results, response,
                   now, lastSleep, guards, n403, served, rvars>>

\* status 403 with an X-RateLimit-Reset header: sleep, then `continue`
search_403_with_reset ==
    /\ pc = "sc_request"
    /\ guardLog' = <<>>
    /\ n403 < Max403
    /\ requests' = requests + 1
    /\ reqPage' = page
    /\ n403' = n403 + 1
    /\ \E r \in ResetValues, t \in NowValues :
          /\ response' = [status |-> 403, hasReset |-> TRUE, reset |-> r]
          /\ now' = t
          /\ lastSleep' = [who |-> "handler", secs |-> wait_seconds(r, t)]
    /\ snapshot' = NoSnapshot
    /\ page' = page_after_403(page)
    /\ pc' = pc_after_403
    /\ UNCHANGED <<phases, dvars, avars, perPage, maxResults, dork, cause, outcome, results, guards,
                   served, rvars>>

\* status 403 without the header: get_rate_limits decides between a wait
\* followed by `continue` and RuntimeError
search_403_without_reset ==
    /\ pc = "sc_request"
    /\ guardLog' = <<>>
    /\ n403 < Max403
    /\ requests' = requests + 1
    /\ reqPage' = page
    /\ n403' = n403 + 1
    /\ response' = [status |-> 403, hasReset |-> FALSE, reset |-> 0]
    /\ \E snap \in Snapshots, t \in NowValues :
          /\ snapshot' = snap
          /\ IF HasSearchQuota(snap)
             THEN /\ now' = t
                  /\ lastSleep' = [who |-> "handler",
                                   secs |-> wait_seconds(snap.res["search"].reset, t)]
                  /\ page' = page_after_403(page)
                  /\ pc' = pc_after_403
                  /\ cause' = cause
             ELSE /\ now' = now
                  /\ lastSleep' = lastSleep
                  /\ page' = page
                  /\ pc' = "sc_raised"
                  /\ cause' = [cause EXCEPT ![dork] = "forbidden"]
    /\ UNCHANGED <<phases, dvars, avars, perPage, maxResults, dork, outcome, results, guards, served,
                   rvars>>

\* any status other than 200 and 403: RuntimeError
search_other_status ==
    /\ pc = "sc_request"
    /\ guardLog' = <<>>
    /\ requests' = requests + 1
    /\ reqPage' = page
    /\ \E s \in OtherStatuses :
          response' = [status |-> s, hasReset |-> FALSE, reset |-> 0]
    /\ snapshot' = NoSnapshot
    /\ pc' = "sc_raised"
    /\ cause' = [cause EXCEPT ![dork] = "status"]
    /\ UNCHANGED <<phases, dvars, avars, perPage, maxResults, dork, outcome, page, results, now,
                   lastSleep, guards, n403, served, rvars>>

\* status 200: append the items up to the cap, stop on an empty or short
\* page, else advance to the next page after the politeness sleep
search_page ==
    /\ pc = "sc_request"
    /\ guardLog' = <<>>
    /\ requests' = requests + 1
    /\ reqPage' = page
    /\ response' = [status |-> 200, hasReset |-> FALSE, reset |-> 0]
    /\ snapshot' = NoSnapshot
    /\ \E n \in PageSizes(perPage) :
          LET items == PageItems(page, n)
          IN  /\ served' = Append(served, [page |-> page, items |-> items])
              /\ results' = IF items = <<>> THEN results
                            ELSE append_items(results, items, maxResults)
              /\ IF is_last_page(items, perPage)
                 THEN /\ page' = page
                      /\ lastSleep' = lastSleep
                      /\ pc' = "sc_returned"
                      /\ cause' = [cause EXCEPT ![dork] = "exhausted"]
                 ELSE /\ page' = page + 1
                      /\ lastSleep' = [who |-> "page", secs |-> 1]
                      /\ pc' = "sc_while"
                      /\ cause' = cause
    /\ UNCHANGED <<phases, dvars, avars, perPage, maxResults, dork, outcome, now, guards, n403, rvars>>

NextSearch ==
    \/ search_loop_exit
    \/ ensure_rate_limit
    \/ search_transport_failure
    \/ search_403_with_reset
    \/ search_403_without_reset
    \/ search_other_status
    \/ search_page

\* One search_code call, for every (per_page, max_results) of the small
\* configurations and for the default page size with a cap of 100.
SearchParams ==
    {[P |-> p, M |-> m] : p \in 1..MaxPerPage, m \in (-1)..MaxResults}
        \cup {[P |-> 30, M |-> 100]}

InitSearch ==
    /\ \E c \in SearchParams : perPage = c.P /\ maxResults = c.M
    /\ pc = "sc_while"
    /\ dork = 1
    /\ cause = [d \in 1..MaxDorks |-> "none"]
    /\ outcome = [d \in 1..MaxDorks |-> "none"]
    /\ SearchLocalsInit
    /\ itemIdx = 0
    /\ processed = <<>>
    /\ download = NoDownload
    /\ allResults = <<>>
    /\ searchHistory = <<>>
    /\ downloadedFiles = {}
    /\ findingRows = <<>>
    /\ writeLog = <<>>
    /\ phases = <<>>
    /\ AnalysisIdle

SpecSearch == InitSearch /\ [][NextSearch]_vars

(***************************************************************************)
(* DatabaseManager: the three persistence writes.  `fails` says whether    *)
(* sqlite raises inside the try block (locked or read-only database, disk  *)
(* full).  The id returned is an integer ("rowid") or None.                *)
(***************************************************************************)
\* faulty variant: record_search without its except clause
record_search_unprotected(rows, args, fails) ==
    IF fails THEN [rows |-> rows, ret |-> "None", raised |-> TRUE]
    ELSE [rows |-> Append(rows, args), ret |-> "rowid", raised |-> FALSE]

\* record_search: INSERT INTO search_history; the key of a row is its
\* AUTOINCREMENT id, its position in the table
record_search(rows, args, fails) ==
    IF fails THEN [rows |-> rows, ret |-> "None", raised |-> FALSE]
    ELSE [rows |-> Append(rows, args), ret |-> "rowid", raised |-> FALSE]

\* record_downloaded_file: INSERT OR IGNORE INTO downloaded_files, with
\* UNIQUE(repository, file_path, dork); `rows` is the set of the keys present
record_downloaded_file(rows, key, fails) ==
    IF fails THEN [rows |-> rows, ret |-> "None", raised |-> FALSE]
    ELSE [rows |-> rows \cup {key}, ret |-> "rowid", raised |-> FALSE]

\* record_finding: INSERT INTO findings
record_finding(rows, args, fails) ==
    IF fails THEN [rows |-> rows, ret |-> "None", raised |-> FALSE]
    ELSE [rows |-> Append(rows, args), ret |-> "rowid", raised |-> FALSE]

\* an entry of the history of writes
WriteEntry(op, args, fails, w) ==
    [op |-> op, args |-> args, failed |-> fails, ret |-> w.ret,
     raised |-> w.raised]

(***************************************************************************)
(* GitMinerApplication.run, _process_search_results and main               *)
(***************************************************************************)
\* faulty variant: a record kept only for the files that were saved
processed_results_append_saved_only(processed_results, result_record) ==
    IF result_record.local_path THEN Append(processed_results, result_record)
    ELSE processed_results

\* processed_results.append(result_record)
processed_results_append(processed_results, result_record) ==
    Append(processed_results, result_record)

\* search_code's frame is gone once it has returned or raised: only the
\* returned list survives
SearchLocalsDropped ==
    /\ page' = 1
    /\ response' = NoResponse
    /\ snapshot' = NoSnapshot
    /\ now' = 0
    /\ lastSleep' = NoSleep
    /\ guardLog' = <<>>
    /\ reqPage' = 0
    /\ requests' = 0
    /\ guards' = 0
    /\ n403' = 0
    /\ served' = <<>>

\* faulty variant: the loop over the dorks left after its first iteration
dorks_exhausted_after_first(d) == d > 1

\* `for dork in self.dorks` has no dork left
dorks_exhausted(d) == d > MaxDorks

\* for dork in self.dorks: the next dork's search_code call begins
run_next_dork ==
    /\ pc = "run_for"
    /\ ~dorks_exhausted(dork)
    /\ results' = <<>>
    /\ SearchLocalsDropped
    /\ pc' = "sc_while"
    /\ UNCHANGED <<phases, dvars, avars, perPage, maxResults, dork, cause, outcome, rvars>>

\* search_code returned a list: record_search (a failed insert is printed
\* and ignored), then _process_search_results starts
run_record_search ==
    /\ pc = "sc_returned"
    /\ outcome' = [outcome EXCEPT ![dork] = "returned"]
    /\ \E fails \in BOOLEAN :
          LET args == [dork |-> dork, results_count |-> Len(results),
                       downloaded_count |-> 0]
              w    == record_search(searchHistory, args, fails)
          IN  /\ searchHistory' = w.rows
              /\ writeLog' = Append(writeLog, WriteEntry("record_search", args, fails, w))
              /\ pc' = IF w.raised THEN "exit_fatal" ELSE "process"
    /\ itemIdx' = 1
    /\ processed' = <<>>
    /\ SearchLocalsDropped
    /\ UNCHANGED <<phases, findingRows, avars, perPage, maxResults, dork, cause,
                   results, download, allResults, downloadedFiles>>

\* one iteration of `for result in results`: download, save, record, append.
\* An exception leaving download_file_content would leave run() as well and
\* end the program in main().
process_item ==
    /\ pc = "process"
    /\ itemIdx <= Len(results)
    /\ LET result == results[itemIdx]
           key == [dork |-> dork, repository |-> result.repository,
                   path |-> result.path]
       IN  \E d \in DescriptorAnswers, r \in RawAnswers,
              saved \in BOOLEAN, inserted \in BOOLEAN :
              LET dl == download_file_content(result.repository, result.path, d, r)
                  \* `if content:` an empty body is falsy as well
                  local_path == dl.ret = "bytes" /\ saved
                  w == record_downloaded_file(downloadedFiles, key, ~inserted)
              IN  /\ dl.ret = "bytes" \/ ~saved
                  /\ local_path \/ ~inserted
                  /\ download' = dl
                  /\ writeLog' =
                         IF local_path /\ ~dl.raised
                         THEN Append(writeLog,
                                     WriteEntry("record_downloaded_file", key,
                                                ~inserted, w))
                         ELSE writeLog
                  /\ IF dl.raised \/ (local_path /\ w.raised)
                     THEN /\ pc' = "exit_fatal"
                          /\ UNCHANGED <<downloadedFiles, processed, itemIdx>>
                     ELSE /\ pc' = pc
                          /\ downloadedFiles' =
                                 IF local_path THEN w.rows ELSE downloadedFiles
                          /\ processed' =
                                 processed_results_append(
                                     processed,
                                     [dork |-> dork,
                                      repository |-> result.repository,
                                      path |-> result.path,
                                      local_path |-> local_path])
                          /\ itemIdx' = itemIdx + 1
    /\ UNCHANGED <<phases, findingRows, avars, perPage, maxResults, dork, cause,
                   outcome, svars, allResults, searchHistory>>

\* _process_search_results returns; all_results.extend(dork_results)
process_return ==
    /\ pc = "process"
    /\ itemIdx > Len(results)
    /\ allResults' = allResults \o processed
    /\ processed' = <<>>
    /\ download' = NoDownload
    /\ itemIdx' = 0
    /\ dork' = dork + 1
    /\ pc' = "run_for"
    /\ UNCHANGED <<phases, dvars, avars, perPage, maxResults, cause, outcome, svars, searchHistory,
                   downloadedFiles>>

\* what run() does after the loop, in order: _display_summary always,
\* _export_csv with --output-csv, _analyze_files unless --no-analyze or
\* nothing was collected, _generate_reports with --report
post_loop_phases(output_csv, no_analyze, report, all_results) ==
    <<"summary">>
        \o (IF output_csv THEN <<"csv">> ELSE <<>>)
        \o (IF ~no_analyze /\ all_results # <<>> THEN <<"analyze">> ELSE <<>>)
        \o (IF report THEN <<"report">> ELSE <<>>)

\* the loop over the dorks is over: summary, export, analysis, reports
run_finish ==
    /\ pc = "run_for"
    /\ dorks_exhausted(dork)
    /\ \E output_csv \in BOOLEAN, no_analyze \in BOOLEAN, report \in BOOLEAN :
          phases' = post_loop_phases(output_csv, no_analyze, report, allResults)
    /\ pc' = "exit_ok"
    /\ UNCHANGED <<dvars, avars, perPage, maxResults, dork, cause, outcome, svars, rvars>>

\* search_code raised RuntimeError: run() does not catch it, main() prints
\* "Fatal error" and calls sys.exit(1)
main_fatal ==
    /\ pc = "sc_raised"
    /\ outcome' = [outcome EXCEPT ![dork] = "raised"]
    /\ pc' = "exit_fatal"
    /\ results' = <<>>
    /\ SearchLocalsDropped
    /\ UNCHANGED <<phases, dvars, avars, perPage, maxResults, dork, cause, rvars>>

NextRun ==
    \/ run_next_dork
    \/ run_record_search
    \/ process_item
    \/ process_return
    \/ run_finish
    \/ main_fatal

Next == NextSearch \/ NextRun

BatchParams ==
    {[P |-> p, M |-> m] : p \in 1..MaxPerPage, m \in 0..MaxBatchResults}

Init ==
    /\ \E c \in BatchParams : perPage = c.P /\ maxResults = c.M
    /\ pc = "run_for"
    /\ dork = 1
    /\ cause = [d \in 1..MaxDorks |-> "none"]
    /\ outcome = [d \in 1..MaxDorks |-> "none"]
    /\ SearchLocalsInit
    /\ itemIdx = 0
    /\ processed = <<>>
    /\ download = NoDownload
    /\ allResults = <<>>
    /\ searchHistory = <<>>
    /\ downloadedFiles = {}
    /\ findingRows = <<>>
    /\ writeLog = <<>>
    /\ phases = <<>>
    /\ AnalysisIdle

Spec == Init /\ [][Next]_vars

\* The batch with one result asked of every search: per_page = 1 and
\* max_results = 1.
InitBrief ==
    /\ perPage = 1
    /\ maxResults = 1
    /\ pc = "run_for"
    /\ dork = 1
    /\ cause = [d \in 1..MaxDorks |-> "none"]
    /\ outcome = [d \in 1..MaxDorks |-> "none"]
    /\ SearchLocalsInit
    /\ itemIdx = 0
    /\ processed = <<>>
    /\ download = NoDownload
    /\ allResults = <<>>
    /\ searchHistory = <<>>
    /\ downloadedFiles = {}
    /\ findingRows = <<>>
    /\ writeLog = <<>>
    /\ phases = <<>>
    /\ AnalysisIdle

SpecBrief == InitBrief /\ [][Next]_vars

\* One _process_search_results call on its own, for every result list of up
\* to MaxItems items.
NextProcess ==
    \/ process_item
    \/ process_return

InitProcess ==
    /\ perPage = 1
    /\ maxResults = MaxItems
    /\ pc = "process"
    /\ dork = 1
    /\ cause = [d \in 1..MaxDorks |-> "none"]
    /\ outcome = [d \in 1..MaxDorks |-> "none"]
    /\ \E n \in 0..MaxItems : results = PageItems(1, n)
    /\ page = 1
    /\ response = NoResponse
    /\ snapshot = NoSnapshot
    /\ now = 0
    /\ lastSleep = NoSleep
    /\ guardLog = <<>>
    /\ reqPage = 0
    /\ requests = 0
    /\ guards = 0
    /\ n403 = 0
    /\ served = <<>>
    /\ itemIdx = 1
    /\ processed = <<>>
    /\ download = NoDownload
    /\ allResults = <<>>
    /\ searchHistory = <<>>
    /\ downloadedFiles = {}
    /\ findingRows = <<>>
    /\ writeLog = <<>>
    /\ phases = <<>>
    /\ AnalysisIdle

SpecProcess == InitProcess /\ [][NextProcess]_vars

\* What run() does with the list search_code returned for one dork, for every
\* list of up to MaxItems items and every dork of the file: record_search,
\* _process_search_results, then the next dork's search begins or the loop
\* is over.
NextPersist ==
    \/ run_record_search
    \/ process_item
    \/ process_return
    \/ run_next_dork
    \/ run_finish

InitPersist ==
    /\ perPage = 1
    /\ maxResults = MaxItems
    /\ pc = "sc_returned"
    /\ dork \in 1..MaxDorks
    /\ cause = [d \in 1..MaxDorks |-> "none"]
    /\ outcome = [d \in 1..MaxDorks |-> "none"]
    /\ \E n \in 0..MaxItems : results = PageItems(1, n)
    /\ page = 1
    /\ response = NoResponse
    /\ snapshot = NoSnapshot
    /\ now = 0
    /\ lastSleep = NoSleep
    /\ guardLog = <<>>
    /\ reqPage = 0
    /\ requests = 0
    /\ guards = 0
    /\ n403 = 0
    /\ served = <<>>
    /\ itemIdx = 0
    /\ processed = <<>>
    /\ download = NoDownload
    /\ allResults = <<>>
    /\ searchHistory = <<>>
    /\ downloadedFiles = {}
    /\ findingRows = <<>>
    /\ writeLog = <<>>
    /\ phases = <<>>
    /\ AnalysisIdle

SpecPersist == InitPersist /\ [][NextPersist]_vars

\* One search_code call under weak fairness: the single thread always takes
\* its next step (every request has a timeout, every sleep is finite).
SpecLive == InitSearch /\ [][NextSearch]_vars /\ WF_vars(NextSearch)

(***************************************************************************)
(* PatternAnalyzer.  Text is a sequence of one-character strings; a regex  *)
(* of a registry is an ordered alternation of literal texts.               *)
(***************************************************************************)
\* the characters of the string s, in order
Chars(s) == [i \in 1..Len(s) |-> SubSeq(s, i, i)]

Min(a, b) == IF a <= b THEN a ELSE b

\* s[i:], positions counted from 1
From(s, i) == SubSeq(s, i, Len(s))

\* s[:n]
Take(s, n) == SubSeq(s, 1, Min(n, Len(s)))

\* the characters str.strip and str.lstrip remove and the class \s accepts
Whitespace == {" ", "\t"}

Quotes == {"\"", "'"}

\* the class [\s:=] of the assignment regex
SeparatorChars == Whitespace \cup {":", "="}

\* what the class [^"'\s;,#] of its group excludes
ValueStops == Quotes \cup Whitespace \cup {";", ",", "#"}

RECURSIVE lstrip(_)
lstrip(s) == IF s # <<>> /\ Head(s) \in Whitespace THEN lstrip(Tail(s)) ELSE s

RECURSIVE rstrip(_)
rstrip(s) ==
    IF s # <<>> /\ s[Len(s)] \in Whitespace
    THEN rstrip(SubSeq(s, 1, Len(s) - 1)) ELSE s

strip(s) == rstrip(lstrip(s))

\* the length of the longest run of characters of `set` that starts s
RunIn(s, set) ==
    LET stops == {i \in 1..Len(s) : s[i] \notin set}
    IN  IF stops = {} THEN Len(s)
        ELSE (CHOOSE i \in stops : \A j \in stops : i <= j) - 1

\* the length of the longest run of characters outside `set` that starts s
RunNotIn(s, set) ==
    LET stops == {i \in 1..Len(s) : s[i] \in set}
    IN  IF stops = {} THEN Len(s)
        ELSE (CHOOSE i \in stops : \A j \in stops : i <= j) - 1

\* the literal `alt` occurs in `line` at position i
alternative_matches(alt, line, i) ==
    /\ i + Len(alt) - 1 <= Len(line)
    /\ SubSeq(line, i, i + Len(alt) - 1) = alt

\* the length matched at position i by the first alternative that matches
\* there, 0 when none does
RECURSIVE match_at(_, _, _)
match_at(alts, line, i) ==
    IF alts = <<>> THEN 0
    ELSE IF alternative_matches(Head(alts), line, i) THEN Len(Head(alts))
    ELSE match_at(Tail(alts), line, i)

\* pattern.finditer(line): the non-overlapping matches from position i on,
\* leftmost first: the scan moves to the first position at or after i where
\* the regex matches, and goes on behind that match; `end` is the position
\* after the last matched character
RECURSIVE finditer(_, _, _)
finditer(alts, line, i) ==
    LET starts == {j \in i..Len(line) : match_at(alts, line, j) > 0}
    IN  IF starts = {} THEN <<>>
        ELSE LET j == CHOOSE k \in starts : \A l \in starts : k <= l
                 n == match_at(alts, line, j)
             IN  <<[start |-> j, end |-> j + n]>> \o finditer(alts, line, j + n)

\* the group ([^"'\s;,#]+) tried at position i of s: the longest run
value_group(s, i) == Take(From(s, i), RunNotIn(From(s, i), ValueStops))

\* the assignment regex with its first class taking exactly k characters:
\* the optional quote is taken when the group can match behind it
match_with_separator(s, k) ==
    LET quoted == IF k + 1 <= Len(s) /\ s[k + 1] \in Quotes
                  THEN value_group(s, k + 2) ELSE <<>>
    IN  IF quoted # <<>> THEN quoted ELSE value_group(s, k + 1)

\* faulty variant: the first class as [\s:=]*, a separator run of any
\* length including none
assignment_pattern_optional_separator(s) ==
    LET n  == RunIn(s, SeparatorChars)
        ks == {k \in 0..n : match_with_separator(s, k) # <<>>}
    IN  IF ks = {} THEN [matched |-> FALSE, group1 |-> <<>>]
        ELSE [matched |-> TRUE,
              group1 |-> match_with_separator(
                             s, CHOOSE k \in ks : \A j \in ks : j <= k)]

\* re.match(r'^[\s:=]+["\']?([^"\'\s;,#]+)["\']?', s): the first class takes
\* the longest run it can and gives characters back until the group matches
assignment_pattern(s) ==
    LET n  == RunIn(s, SeparatorChars)
        ks == {k \in 1..n : match_with_separator(s, k) # <<>>}
    IN  IF ks = {} THEN [matched |-> FALSE, group1 |-> <<>>]
        ELSE [matched |-> TRUE,
              group1 |-> match_with_separator(
                             s, CHOOSE k \in ks : \A j \in ks : j <= k)]

\* faulty variant: the captured value returned whole
extract_parameter_value_uncapped(line, start_pos, max_length) ==
    LET remaining == lstrip(From(line, start_pos))
    IN  IF remaining = <<>> THEN [found |-> FALSE, value |-> <<>>]
        ELSE LET m == assignment_pattern(remaining)
             IN  IF m.matched /\ m.group1 # <<>>
                 THEN [found |-> TRUE, value |-> m.group1]
                 ELSE [found |-> FALSE, value |-> <<>>]

\* the None of _extract_parameter_value
NoValue == [found |-> FALSE, value |-> <<>>]

\* _extract_parameter_value(line, start_pos, max_length); start_pos is the
\* position of the first character after the match
extract_parameter_value(line, start_pos, max_length) ==
    LET remaining == lstrip(From(line, start_pos))
    IN  IF remaining = <<>> THEN NoValue
        ELSE LET m == assignment_pattern(remaining)
             IN  IF m.matched /\ m.group1 # <<>>
                 THEN [found |-> TRUE, value |-> Take(m.group1, max_length)]
                 ELSE NoValue

\* faulty variant: the "=" appended whether or not a value was extracted
label_matched_text_always(matched_text, value) ==
    matched_text \o <<"=">> \o value.value

\* `if value: matched_text = f"{matched_text}={value}"`
label_matched_text(matched_text, value) ==
    IF value.found /\ value.value # <<>>
    THEN matched_text \o <<"=">> \o value.value
    ELSE matched_text

\* the findings of one generic pattern on one line; start and end are
\* history, the span of the match in the line
pattern_line_findings(pattern, ls, ln, max_context_length) ==
    LET line == ls[ln]
        ms   == finditer(pattern.regex, line, 1)
    IN  [k \in 1..Len(ms) |->
            [label |-> pattern.name,
             matched_text |-> SubSeq(line, ms[k].start, ms[k].end - 1),
             context |-> Take(strip(line), max_context_length),
             line_number |-> ln,
             start |-> ms[k].start, end |-> ms[k].end]]

\* max_length's default
DefaultMaxLength == 100

\* the findings of one label pattern on one line
label_line_findings(lb, ls, ln, max_context_length) ==
    LET line == ls[ln]
        ms   == finditer(lb.regex, line, 1)
    IN  [k \in 1..Len(ms) |->
            [label |-> lb.label,
             matched_text |->
                 label_matched_text(
                     SubSeq(line, ms[k].start, ms[k].end - 1),
                     extract_parameter_value(line, ms[k].end, DefaultMaxLength)),
             context |-> Take(strip(line), max_context_length),
             line_number |-> ln,
             start |-> ms[k].start, end |-> ms[k].end]]

\* _scan_with_patterns: for each pattern, for each line, for each match
scan_with_patterns(ls, max_context_length, ps) ==
    Concat([pi \in 1..Len(ps) |->
        Concat([ln \in 1..Len(ls) |->
            pattern_line_findings(ps[pi], ls, ln, max_context_length)])])

\* faulty variant: the label pass with its two loops exchanged
scan_with_labels_label_major(ls, max_context_length, lbs) ==
    Concat([li \in 1..Len(lbs) |->
        Concat([ln \in 1..Len(ls) |->
            label_line_findings(lbs[li], ls, ln, max_context_length)])])

\* _scan_with_labels: for each line, for each label pattern, for each match
scan_with_labels(ls, max_context_length, lbs) ==
    Concat([ln \in 1..Len(ls) |->
        Concat([li \in 1..Len(lbs) |->
            label_line_findings(lbs[li], ls, ln, max_context_length)])])

\* faulty variant: a label finding on a span a generic pattern matched is
\* dropped
extend_findings_deduplicated(pattern_findings, label_findings) ==
    pattern_findings \o
    SelectSeq(label_findings,
              LAMBDA f : \A i \in 1..Len(pattern_findings) :
                  \/ pattern_findings[i].line_number # f.line_number
                  \/ pattern_findings[i].start # f.start
                  \/ pattern_findings[i].end # f.end)

\* faulty variant: the two extend calls exchanged
extend_findings_labels_first(pattern_findings, label_findings) ==
    label_findings \o pattern_findings

\* findings.extend(_scan_with_patterns(...)), then
\* findings.extend(_scan_with_labels(...))
extend_findings(pattern_findings, label_findings) ==
    pattern_findings \o label_findings

(***************************************************************************)
(* PatternAnalyzer.scan_file on its own, for small files and registries.   *)
(***************************************************************************)
\* the characters the generated text after a label match is made of: a
\* blank, the two separators, a quote, a terminator and a plain character
TailChars == {" ", "=", ":", "\"", ";", "v"}

\* every text of at most n characters of TailChars
Tails(n) == UNION {[1..m -> TailChars] : m \in 0..n}

\* one-line files: the key "k" followed by every tail
KeyFiles == {<<Chars("k") \o t>> : t \in Tails(MaxTail)}

\* files of several lines over a few lines
OrderLines == {Chars("A"), Chars("v"), Chars("k"), Chars("k=v"), Chars(" A k ")}

OrderFiles == UNION {[1..m -> OrderLines] : m \in 0..MaxLines}

\* generic patterns (name, regex) and label patterns (regex, label)
PatA == [name |-> Chars("PAT_A"), regex |-> <<Chars("A")>>]

PatV == [name |-> Chars("PAT_V"), regex |-> <<Chars("vv"), Chars("v")>>]

\* a generic pattern whose matches overlap those of PatV
PatKV == [name |-> Chars("PAT_KV"), regex |-> <<Chars("k=v")>>]

LabK == [regex |-> <<Chars("k")>>, label |-> Chars("K")]

LabVA == [regex |-> <<Chars("v"), Chars("A")>>, label |-> Chars("VA")]

Registries ==
    {[patterns |-> <<>>, labels |-> <<>>],
     [patterns |-> <<PatA>>, labels |-> <<LabK>>],
     [patterns |-> <<PatA, PatV>>, labels |-> <<LabK, LabVA>>],
     [patterns |-> <<PatV, PatA>>, labels |-> <<LabVA, LabK>>],
     [patterns |-> <<PatV, PatKV>>, labels |-> <<LabVA>>]}

\* label patterns in the manner of the default configuration, and one whose
\* regex is the literal db_password
DbPasswordLabels ==
    {<<[regex |-> <<Chars("db_password")>>, label |-> Chars("DB_PASSWORD")]>>,
     <<[regex |-> <<Chars("db_pass"), Chars("dbpassword"), Chars("db_password")>>,
        label |-> Chars("DB_PASSWORD")],
       [regex |-> <<Chars("password"), Chars("passwd"), Chars("pass")>>,
        label |-> Chars("PASSWORD")]>>}

DbPasswordFiles ==
    {<<Chars("db_password = \"hunter2\"")>>,
     <<Chars("  db_password: 'hunter2';")>>,
     <<Chars("db_password hunter2")>>}

\* one-line files whose value has one character more than max_length allows,
\* exactly as many, and one fewer
LongValueFiles ==
    {<<Chars("k=") \o [i \in 1..n |-> "v"]>> :
        n \in (DefaultMaxLength - 1)..(DefaultMaxLength + 1)}

\* the values of max_context_length: the default and one that truncates
ContextLengths == {2, 500}

ScanInputs ==
    {[readable |-> TRUE, lines |-> f, patterns |-> r.patterns,
      labels |-> r.labels, maxContext |-> c] :
        f \in KeyFiles \cup OrderFiles, r \in Registries, c \in ContextLengths}
    \cup
    {[readable |-> TRUE, lines |-> f, patterns |-> <<PatA>>, labels |-> l,
      maxContext |-> 500] : f \in DbPasswordFiles, l \in DbPasswordLabels}
    \cup
    {[readable |-> TRUE, lines |-> f, patterns |-> <<PatA>>, labels |-> <<LabK>>,
      maxContext |-> c] : f \in LongValueFiles, c \in ContextLengths}
    \cup
    {[readable |-> FALSE, lines |-> <<>>, patterns |-> r.patterns,
      labels |-> r.labels, maxContext |-> 500] : r \in Registries}

\* the search and the batch are not running
BatchIdle ==
    /\ perPage = 1
    /\ maxResults = 0
    /\ dork = 1
    /\ cause = [d \in 1..MaxDorks |-> "none"]
    /\ outcome = [d \in 1..MaxDorks |-> "none"]
    /\ SearchLocalsInit
    /\ itemIdx = 0
    /\ processed = <<>>
    /\ download = NoDownload
    /\ allResults = <<>>
    /\ searchHistory = <<>>
    /\ downloadedFiles = {}
    /\ findingRows = <<>>
    /\ writeLog = <<>>
    /\ phases = <<>>

\* scan_file(file_path, max_context_length): read, split, both passes; any
\* exception while reading ends it with the findings collected so far (none)
scan_file ==
    /\ pc = "scan"
    /\ patternFindings' =
           IF readable THEN scan_with_patterns(lines, maxContext, patterns)
           ELSE <<>>
    /\ labelFindings' =
           IF readable THEN scan_with_labels(lines, maxContext, labels)
           ELSE <<>>
    /\ findings' = extend_findings(patternFindings', labelFindings')
    /\ pc' = "scanned"
    /\ UNCHANGED <<perPage, maxResults, dork, cause, outcome, svars, rvars, dvars, phases,
                   readable, lines, patterns, labels, maxContext, label,
                   severity, cvars>>

NextScan == scan_file

InitScan ==
    /\ BatchIdle
    /\ ConfigIdle
    /\ pc = "scan"
    /\ \E i \in ScanInputs :
          /\ readable = i.readable
          /\ lines = i.lines
          /\ patterns = i.patterns
          /\ labels = i.labels
          /\ maxContext = i.maxContext
    /\ patternFindings = <<>>
    /\ labelFindings = <<>>
    /\ findings = <<>>
    /\ label = [present |-> FALSE, text |-> <<>>]
    /\ severity = ""

SpecScan == InitScan /\ [][NextScan]_vars

(***************************************************************************)
(* PatternAnalyzer.classify_severity on its own.                           *)
(***************************************************************************)
LowerCase == Chars("abcdefghijklmnopqrstuvwxyz")

UpperCase == Chars("ABCDEFGHIJKLMNOPQRSTUVWXYZ")

\* str.upper on one character and on a text
upper_char(c) ==
    IF \E i \in 1..Len(LowerCase) : LowerCase[i] = c
    THEN UpperCase[CHOOSE i \in 1..Len(LowerCase) : LowerCase[i] = c]
    ELSE c

upper(s) == [i \in 1..Len(s) |-> upper_char(s[i])]

\* `indicator in label_upper`: the text occurs somewhere in s
Contains(s, indicator) ==
    \E i \in 1..(Len(s) - Len(indicator) + 1) :
        SubSeq(s, i, i + Len(indicator) - 1) = indicator

\* faulty variant: the HIGH list without TOKEN
high_indicators_without_token ==
    <<Chars("PRIVATE"), Chars("SECRET"), Chars("AWS"),
      Chars("SSH_PRIVATE_KEY"), Chars("PRIVATE_KEY"), Chars("CERTIFICATE")>>

high_indicators ==
    <<Chars("PRIVATE"), Chars("SECRET"), Chars("AWS"), Chars("TOKEN"),
      Chars("SSH_PRIVATE_KEY"), Chars("PRIVATE_KEY"), Chars("CERTIFICATE")>>

medium_indicators ==
    <<Chars("PASSWORD"), Chars("PASS"), Chars("JWT"), Chars("API"),
      Chars("GITHUB_TOKEN"), Chars("ACCESS_KEY"), Chars("OAUTH")>>

\* any(indicator in label_upper for indicator in indicators)
any_indicator_in(indicators, label_upper) ==
    \E k \in 1..Len(indicators) : Contains(label_upper, indicators[k])

\* a label argument: None (present = FALSE) or a text
NoLabel == [present |-> FALSE, text |-> <<>>]

\* (label or "").upper()
label_upper_of(lb) == upper(IF lb.present THEN lb.text ELSE <<>>)

\* faulty variant: the MEDIUM test made before the HIGH test
classify_severity_medium_first(lb) ==
    IF any_indicator_in(medium_indicators, label_upper_of(lb)) THEN "MEDIUM"
    ELSE IF any_indicator_in(high_indicators, label_upper_of(lb)) THEN "HIGH"
    ELSE "LOW"

\* classify_severity(label)
classify_severity(lb) ==
    IF any_indicator_in(high_indicators, label_upper_of(lb)) THEN "HIGH"
    ELSE IF any_indicator_in(medium_indicators, label_upper_of(lb)) THEN "MEDIUM"
    ELSE "LOW"

\* the words the labels to classify are put together from
LabelWords ==
    {Chars(""), Chars("_"), Chars("AWS"), Chars("SECRET"), Chars("PASSWORD"),
     Chars("PASS"), Chars("TOKEN"), Chars("GITHUB_TOKEN"), Chars("API"),
     Chars("ACCESS_KEY"), Chars("KEY"), Chars("USER"), Chars("EMAIL"),
     Chars("password"), Chars("Secret"), Chars("jwt"), Chars("oAuth"),
     Chars("PRIV"), Chars("ATE"), Chars("CERTIFICATE")}

\* every text of at most n words
RECURSIVE WordTexts(_)
WordTexts(n) ==
    IF n = 0 THEN {<<>>}
    ELSE WordTexts(n - 1) \cup
         {t \o w : t \in WordTexts(n - 1), w \in LabelWords}

ClassifyLabels ==
    {NoLabel}
    \cup {[present |-> TRUE, text |-> t] : t \in WordTexts(MaxWords)}
    \cup {[present |-> TRUE, text |-> Chars("AWS_SECRET_PASSWORD")],
          [present |-> TRUE, text |-> Chars("aws_secret_password")],
          [present |-> TRUE, text |-> Chars("DB_PASSWORD")],
          [present |-> TRUE, text |-> Chars("SSH_PRIVATE_KEY")],
          [present |-> TRUE, text |-> Chars("MY_GITHUB_TOKEN_V2")],
          [present |-> TRUE, text |-> Chars("github_token")],
          [present |-> TRUE, text |-> Chars("AWS_ACCESS_KEY")],
          [present |-> TRUE, text |-> Chars("aws_access_key_id")]}

\* the caller's `severity = self.pattern_analyzer.classify_severity(label)`
call_classify_severity ==
    /\ pc = "classify"
    /\ severity' = classify_severity(label)
    /\ pc' = "classified"
    /\ UNCHANGED <<perPage, maxResults, dork, cause, outcome, svars, rvars, dvars, phases,
                   readable, lines, patterns, labels, maxContext,
                   patternFindings, labelFindings, findings, label, cvars>>

NextClassify == call_classify_severity

InitClassify ==
    /\ BatchIdle
    /\ ConfigIdle
    /\ pc = "classify"
    /\ readable = FALSE
    /\ lines = <<>>
    /\ patterns = <<>>
    /\ labels = <<>>
    /\ maxContext = 0
    /\ patternFindings = <<>>
    /\ labelFindings = <<>>
    /\ findings = <<>>
    /\ label \in ClassifyLabels
    /\ severity = ""

SpecClassify == InitClassify /\ [][NextClassify]_vars

(***************************************************************************)
(* Startup: ConfigManager loads the two registries and PatternAnalyzer is  *)
(* constructed.  A regex source is well-formed or not; re.compile turns a  *)
(* well-formed source into a pattern and raises re.error on the other.     *)
(***************************************************************************)
\* re.compile(source)
re_compile(source) ==
    [raised |-> ~source.wellformed,
     pattern |-> IF source.wellformed THEN source.regex ELSE <<>>]

SourceA == [regex |-> <<Chars("A")>>, wellformed |-> TRUE]

SourceV == [regex |-> <<Chars("vv"), Chars("v")>>, wellformed |-> TRUE]

SourceK == [regex |-> <<Chars("k")>>, wellformed |-> TRUE]

\* a source such as "(" or "[a-"
SourceBad == [regex |-> <<>>, wellformed |-> FALSE]

\* the entries a patterns file is made of: name and regex source
PatternEntries ==
    {[name |-> Chars("PAT_A"), source |-> SourceA],
     [name |-> Chars("PAT_V"), source |-> SourceV],
     [name |-> Chars("PAT_BAD"), source |-> SourceBad]}

\* the entries a labels file is made of: regex source and label
LabelEntries ==
    {[source |-> SourceK, label |-> Chars("K")],
     [source |-> SourceA, label |-> Chars("VA")],
     [source |-> SourceBad, label |-> Chars("BAD")]}

\* the files of at most MaxEntries different entries of `pool`, and the
\* file that is missing or is not YAML
ConfigFiles(pool) ==
    {NoFile} \cup
    {[readable |-> TRUE, entries |-> es] :
        es \in {s \in UNION {[1..m -> pool] : m \in 0..MaxEntries} :
                   \A i, j \in 1..Len(s) : i # j => s[i] # s[j]}}

\* _load_default_labels and _load_default_patterns, in short
default_labels ==
    <<[source |-> [regex |-> <<Chars("password"), Chars("passwd"), Chars("pass")>>,
                   wellformed |-> TRUE],
       label |-> Chars("PASSWORD")]>>

default_patterns ==
    <<[name |-> Chars("AWS_ACCESS_KEY_ID"), regex |-> <<Chars("AKIA")>>]>>

\* _load_labels: the sources are stored as they are, nothing is compiled;
\* a file that cannot be loaded gives the defaults
load_labels(file) ==
    IF ~file.readable THEN default_labels ELSE file.entries

\* _load_patterns: every source is compiled inside the try block; a file
\* that cannot be loaded or one re.error gives the defaults
load_patterns(file) ==
    IF ~file.readable THEN default_patterns
    ELSE IF \E i \in 1..Len(file.entries) :
                re_compile(file.entries[i].source).raised
         THEN default_patterns
         ELSE [i \in 1..Len(file.entries) |->
                  [name |-> file.entries[i].name,
                   regex |-> re_compile(file.entries[i].source).pattern]]

\* self._load_labels(labels_path)
config_load_labels ==
    /\ pc = "load_labels"
    /\ configLabels' = load_labels(labelsFile)
    /\ pc' = "load_patterns"
    /\ UNCHANGED <<perPage, maxResults, dork, cause, outcome, svars, rvars, dvars, phases,
                   readable, lines, patterns, labels, maxContext,
                   patternFindings, labelFindings, findings, label, severity,
                   labelsFile, patternsFile, configPatterns>>

\* self._load_patterns(patterns_path)
config_load_patterns ==
    /\ pc = "load_patterns"
    /\ configPatterns' = load_patterns(patternsFile)
    /\ pc' = "init_analyzer"
    /\ UNCHANGED <<perPage, maxResults, dork, cause, outcome, svars, rvars, dvars, phases,
                   readable, lines, patterns, labels, maxContext,
                   patternFindings, labelFindings, findings, label, severity,
                   labelsFile, patternsFile, configLabels>>

\* PatternAnalyzer(patterns, labels): every label source is compiled; an
\* re.error leaves GitMinerApplication.__init__ and main() ends the program
\* with "Fatal error"; otherwise the application is ready to run
pattern_analyzer_init ==
    /\ pc = "init_analyzer"
    /\ IF \E i \in 1..Len(configLabels) :
              re_compile(configLabels[i].source).raised
       THEN /\ pc' = "exit_fatal"
            /\ UNCHANGED <<patterns, labels>>
       ELSE /\ pc' = "started"
            /\ patterns' = configPatterns
            /\ labels' = [i \in 1..Len(configLabels) |->
                             [regex |-> re_compile(configLabels[i].source).pattern,
                              label |-> configLabels[i].label]]
    /\ UNCHANGED <<perPage, maxResults, dork, cause, outcome, svars, rvars, dvars, phases,
                   readable, lines, maxContext, patternFindings,
                   labelFindings, findings, label, severity, cvars>>

NextStartup ==
    \/ config_load_labels
    \/ config_load_patterns
    \/ pattern_analyzer_init

InitStartup ==
    /\ BatchIdle
    /\ pc = "load_labels"
    /\ labelsFile \in ConfigFiles(LabelEntries)
    /\ patternsFile \in ConfigFiles(PatternEntries)
    /\ configLabels = <<>>
    /\ configPatterns = <<>>
    /\ readable = FALSE
    /\ lines = <<>>
    /\ patterns = <<>>
    /\ labels = <<>>
    /\ maxContext = 0
    /\ patternFindings = <<>>
    /\ labelFindings = <<>>
    /\ findings = <<>>
    /\ label = NoLabel
    /\ severity = ""

SpecStartup == InitStartup /\ [][NextStartup]_vars

(***************************************************************************)
(* DatabaseManager on its own: any sequence of at most MaxWrites writes,   *)
(* each with arguments of a small set, each failing inside sqlite or not.  *)
(***************************************************************************)
SearchArgs ==
    [dork : {1}, results_count : 0..1, downloaded_count : {0}]

FileArgs ==
    [dork : {1}, repository : {"r1"}, path : {"a", "b"}]

FindingArgs ==
    [file_id : {1}, label : {"K"}, matched_text : {"k=v"}, context : {"k=v"},
     line_number : 1..2, severity : {"HIGH"}]

call_record_search ==
    /\ pc = "store"
    /\ Len(writeLog) < MaxWrites
    /\ \E args \in SearchArgs, fails \in BOOLEAN :
          LET w == record_search(searchHistory, args, fails)
          IN  /\ searchHistory' = w.rows
              /\ writeLog' = Append(writeLog, WriteEntry("record_search", args, fails, w))
    /\ UNCHANGED <<pc, phases, perPage, maxResults, dork, cause, outcome, svars, avars,
                   itemIdx, processed, download, allResults, downloadedFiles,
                   findingRows>>

call_record_downloaded_file ==
    /\ pc = "store"
    /\ Len(writeLog) < MaxWrites
    /\ \E args \in FileArgs, fails \in BOOLEAN :
          LET w == record_downloaded_file(downloadedFiles, args, fails)
          IN  /\ downloadedFiles' = w.rows
              /\ writeLog' = Append(writeLog,
                                    WriteEntry("record_downloaded_file", args, fails, w))
    /\ UNCHANGED <<pc, phases, perPage, maxResults, dork, cause, outcome, svars, avars,
                   itemIdx, processed, download, allResults, searchHistory,
                   findingRows>>

call_record_finding ==
    /\ pc = "store"
    /\ Len(writeLog) < MaxWrites
    /\ \E args \in FindingArgs, fails \in BOOLEAN :
          LET w == record_finding(findingRows, args, fails)
          IN  /\ findingRows' = w.rows
              /\ writeLog' = Append(writeLog, WriteEntry("record_finding", args, fails, w))
    /\ UNCHANGED <<pc, phases, perPage, maxResults, dork, cause, outcome, svars, avars,
                   itemIdx, processed, download, allResults, searchHistory,
                   downloadedFiles>>

NextStore ==
    \/ call_record_search
    \/ call_record_downloaded_file
    \/ call_record_finding

InitStore ==
    /\ pc = "store"
    /\ BatchIdle
    /\ AnalysisIdle

SpecStore == InitStore /\ [][NextStore]_vars

(***************************************************************************)
(* Properties of search_code.                                              *)
(***************************************************************************)
Returned == pc = "sc_returned"

Raised == pc = "sc_raised"

\* the items of the successfully answered pages, in the order served
ServedItems == Concat([k \in 1..Len(served) |->
                          [i \in 1..Len(served[k].items) |->
                              result_item(served[k].items[i])]])

LastServedSize == Len(served[Len(served)].items)

\* C1: the list search_code holds, and so the list it returns, never has
\* more than max_results items (max_results being a count: for a negative
\* max_results the list is empty).
C1_AtMostMaxResults == Len(results) <= Max(maxResults, 0)

\* C1 witness: search_code returned exactly max_results items although the
\* pages it was served held more.
C1_Witness ==
    /\ Returned
    /\ maxResults > 0
    /\ Len(results) = maxResults
    /\ Len(ServedItems) > maxResults

\* C2 (as claimed): a returned list shorter than max_results means the last
\* successfully answered page was empty or shorter than per_page.
C2_ShortOnlyIfExhausted ==
    (Returned /\ Len(results) < maxResults)
        => (served # <<>> /\ LastServedSize < perPage)

\* C3: guard calls and search requests strictly alternate, starting with a
\* guard call: a request is issued only with one unused guard call behind
\* it, and a guard call is made only when no request is pending.
C3_GuardBeforeEveryRequest ==
    /\ [](guards = requests + (IF pc = "sc_request" THEN 1 ELSE 0))
    /\ [][requests' # requests =>
            /\ pc = "sc_request" /\ pc' # "sc_request"
            /\ requests' = requests + 1 /\ guards' = guards]_vars
    /\ [][guards' # guards =>
            /\ pc = "sc_while" /\ pc' = "sc_request"
            /\ guards' = guards + 1 /\ requests' = requests]_vars

\* C3 witness: after a 403 the retry is about to be issued behind a second
\* guard call.
C3_Witness ==
    /\ pc = "sc_request"
    /\ response.status = 403
    /\ requests = 1
    /\ guards = 2

\* C4: a 403 with reset metadata makes search_code sleep
\* max(10, reset - now + 1) and go back to the loop head with the page
\* counter and the results unchanged; the request that follows a 403 asks
\* for the same page as the one that was refused.
C4_RetrySamePage ==
    /\ [][(n403' = n403 + 1 /\ response'.hasReset) =>
            /\ lastSleep' = [who |-> "handler",
                             secs |-> Max(10, response'.reset - now' + 1)]
            /\ page' = page
            /\ results' = results
            /\ served' = served
            /\ pc' = "sc_while"]_vars
    /\ [][(requests' = requests + 1 /\ response.status = 403 /\ response.hasReset) =>
            reqPage' = reqPage]_vars

\* C4 witness: page 2 was refused with reset metadata after page 1 was
\* collected, and search_code slept until one second past the reset.
C4_Witness ==
    /\ pc = "sc_while"
    /\ response.status = 403
    /\ response.hasReset
    /\ lastSleep = [who |-> "handler", secs |-> 13]
    /\ page = 2
    /\ reqPage = 2
    /\ results # <<>>

C8_ShortPageStops ==
    /\ [][Len(served') = Len(served) + 1 =>
            LET n == Len(served'[Len(served')].items)
            IN  IF n < perPage
                THEN pc' = "sc_returned" /\ page' = page
                ELSE pc' = "sc_while" /\ page' = page + 1]_vars
    /\ [][(requests' = requests + 1 /\ response.status = 200) =>
            (Len(results) < maxResults /\ reqPage' = reqPage + 1)]_vars
    /\ [][Returned => requests' = requests]_vars
    /\ []((/\ perPage = 30
           /\ maxResults = 100
           /\ n403 = 0
           /\ Len(served) = 2
           /\ Len(served[1].items) = 30
           /\ Len(served[2].items) = 5)
          => (Returned /\ requests = 2 /\ Len(results) = 35))

\* C8 witness: the scenario of the 30-item and the 5-item page.
C8_Witness ==
    /\ perPage = 30
    /\ maxResults = 100
    /\ n403 = 0
    /\ Len(served) = 2
    /\ Len(served[1].items) = 30
    /\ Len(served[2].items) = 5
    /\ Returned
    /\ requests = 2
    /\ Len(results) = 35

\* C9: the successfully answered pages are pages 1, 2, 3, ... in this order,
\* the results are a prefix of their items in server order, and the prefix
\* is proper only when it has max_results items.
C9_PrefixOfServedPages ==
    /\ \A k \in 1..Len(served) : served[k].page = k
    /\ IsPrefix(results, ServedItems)
    /\ Len(results) < Len(ServedItems) => Len(results) = maxResults

\* C9 witness: two pages were collected around a 403 and the second was cut
\* at the cap.
C9_Witness ==
    /\ Returned
    /\ n403 >= 1
    /\ Len(served) = 2
    /\ Len(results) = maxResults
    /\ Len(ServedItems) > maxResults

\* C10: with finitely many 403 answers search_code ends (returns or
\* raises), and it never has more than ceil(max_results / per_page)
\* successfully answered pages.
C10_Terminates ==
    /\ <>(Returned \/ Raised)
    /\ [](Len(served) <= CeilDiv(Max(maxResults, 0), perPage))

\* C10 witness: search_code returned after every allowed 403 and after
\* exactly ceil(max_results / per_page) >= 2 pages.
C10_Witness ==
    /\ Returned
    /\ n403 = Max403
    /\ Len(served) >= 2
    /\ Len(served) = CeilDiv(maxResults, perPage)

\* C27: once the collected results have reached max_results no guard call
\* and no search request is made: with max_results <= 0 search_code returns
\* the empty list with no guard call and no request, and after a full page
\* that exactly reaches the cap the loop is left at its head, the last
\* request being the one for that page.
C27_NothingPastTheCap ==
    /\ Len(results) >= maxResults => pc \in {"sc_while", "sc_returned"}
    /\ (Returned /\ maxResults <= 0) =>
           (results = <<>> /\ guards = 0 /\ requests = 0 /\ served = <<>>)
    /\ (Returned /\ cause[dork] = "cap" /\ maxResults > 0) =>
           /\ Len(results) = maxResults
           /\ response.status = 200
           /\ LastServedSize >= perPage
           /\ reqPage = served[Len(served)].page
           /\ guards = requests

\* C27 witness: the second full page brought the list exactly to the cap
\* and search_code returned after two requests.
C27_Witness ==
    /\ Returned
    /\ cause[dork] = "cap"
    /\ maxResults = 2 * perPage
    /\ Len(ServedItems) = maxResults
    /\ Len(results) = maxResults
    /\ requests = 2
    /\ guards = 2

(***************************************************************************)
(* Properties of the pre-request guard.                                    *)
(***************************************************************************)
\* the guard has just returned: its log, snapshot and clock are current
GuardReturned == pc = "sc_request"

\* the resource the guard is documented to decide on: the first one present
\* in the order code_search, search, core
Priority == <<"code_search", "search", "core">>

PresentInPriority(snap) ==
    SelectSeq(Priority, LAMBDA r : r \in DOMAIN snap.res)

HasSelected(snap) == snap.ok /\ PresentInPriority(snap) # <<>>

SelectedName(snap) == PresentInPriority(snap)[1]

Selected(snap) == snap.res[SelectedName(snap)]

FetchesOf(log) == SelectSeq(log, LAMBDA e : e.ev = "fetch")

\* C11: one ensure_rate_limit call fetches the snapshot exactly once, first
\* of all; when the selected resource has at least the needed capacity it
\* does not sleep; otherwise it sleeps exactly once, for
\* max(0, reset - now + 1) seconds; in both cases it returns to the caller.
C11_OneFetchAtMostOneSleep ==
    GuardReturned =>
        /\ Len(FetchesOf(guardLog)) = 1
        /\ guardLog[1] = FetchEvent
        /\ Len(SleepsOf(guardLog)) <= 1
        /\ HasSelected(snapshot) =>
               IF Selected(snapshot).remaining >= 1
               THEN SleepsOf(guardLog) = <<>>
               ELSE SleepsOf(guardLog) =
                        <<SleepEvent(Max(0, Selected(snapshot).reset - now + 1))>>

\* C11 witness: the selected resource is exhausted and resets 12 seconds
\* from now; the guard fetched once, slept once (12 + 1 seconds) and
\* returned.
C11_Witness ==
    /\ GuardReturned
    /\ HasSelected(snapshot)
    /\ Selected(snapshot).remaining = 0
    /\ Selected(snapshot).reset = now + 12
    /\ guardLog = <<FetchEvent, SleepEvent(13)>>
    /\ \E r \in DOMAIN snapshot.res :
           r # SelectedName(snapshot) /\ snapshot.res[r].remaining = 0

\* C12: when the snapshot cannot be obtained the guard fetches once, sleeps
\* one fixed 5 seconds and returns without raising, so that the caller goes
\* on to issue its search request.
C12_NoSnapshotFixedWait ==
    [][(guards' = guards + 1 /\ ~snapshot'.ok) =>
           /\ guardLog' = <<FetchEvent, SleepEvent(5)>>
           /\ lastSleep' = [who |-> "guard", secs |-> 5]
           /\ pc' = "sc_request"]_vars

\* C12 witness: the request that follows a guard without a snapshot has
\* been answered with a page.
C12_Witness ==
    /\ ~snapshot.ok
    /\ guards = requests
    /\ requests >= 1
    /\ response.status = 200
    /\ lastSleep = [who |-> "guard", secs |-> 5]

\* C13: the guard decides on the first resource present in the order
\* code_search, search, core, and on nothing else: any snapshot with the
\* same first resource would have led to the same fetches and sleeps.
C13_FirstPresentDecides ==
    (GuardReturned /\ HasSelected(snapshot)) =>
        /\ \A other \in Snapshots :
               (HasSelected(other) /\ Selected(other) = Selected(snapshot))
                   => ensure_rate_limit_log(other, now, 1) = guardLog
        /\ SleepsOf(guardLog) = <<>> <=> Selected(snapshot).remaining >= 1

\* C13 witness: code_search is exhausted while search still has capacity,
\* and the guard slept; and the other way round, and the guard did not.
C13_Witness ==
    /\ GuardReturned
    /\ snapshot.ok
    /\ {"code_search", "search"} \subseteq DOMAIN snapshot.res
    /\ snapshot.res["code_search"].remaining = 0
    /\ snapshot.res["search"].remaining = 1
    /\ SleepsOf(guardLog) # <<>>

\* the snapshot was obtained and is not empty, but holds none of
\* code_search, search and core
NoKnownResource(snap) ==
    /\ snap.ok
    /\ DOMAIN snap.res # {}
    /\ DOMAIN snap.res \cap {"code_search", "search", "core"} = {}

\* C28: with a snapshot that is available and non-empty but holds none of
\* code_search, search and core the guard fetches, sleeps not at all and
\* returns, and the search request follows; the 5 s wait is taken only for
\* an unavailable or empty snapshot.
C28_UnknownResourcesNoDelay ==
    GuardReturned =>
        /\ NoKnownResource(snapshot) =>
               (guardLog = <<FetchEvent>> /\ lastSleep = NoSleep)
        /\ (~HasSelected(snapshot) /\ SleepsOf(guardLog) # <<>>) =>
               (~snapshot.ok \/ DOMAIN snapshot.res = {})

\* C28 witness: the only resource of the snapshot is graphql, with nothing
\* remaining, after an earlier page; the guard returned without a sleep and
\* the request for the second page is about to be issued.
C28_Witness ==
    /\ GuardReturned
    /\ DOMAIN snapshot.res = {"graphql"}
    /\ snapshot.res["graphql"].remaining = 0
    /\ guardLog = <<FetchEvent>>
    /\ lastSleep = NoSleep
    /\ page = 2
    /\ guards = requests + 1

(***************************************************************************)
(* Properties of the content download and of _process_search_results.      *)
(***************************************************************************)
\* a download_file_content call has been made for the current result list
Downloaded == download # NoDownload

\* how often the request `q` occurs in the sequence of requests `reqs`
Times(q, reqs) == Len(SelectSeq(reqs, LAMBDA x : x = q))

\* what a finished download_file_content call looks like from outside
DownloadContract ==
    Downloaded =>
        /\ ~download.raised
        /\ pc # "exit_fatal"
        /\ download.ret \in {"None", "empty", "bytes"}
        /\ download.ret # "None" => download.reqs = <<"contents", "raw">>
        /\ Times("contents", download.reqs) = 1
        /\ Times("raw", download.reqs) <= 1
        /\ Times("raw", download.reqs) = 1 => download.reqs[1] = "contents"

\* one download_file_content call: whatever the two hosts answer, the value
\* returned is the content exactly when both requests were answered with
\* success, and the loop of the caller goes on
DownloadStep ==
    (pc = "process" /\ download' # download /\ download' # NoDownload) =>
        \E d \in DescriptorAnswers, r \in RawAnswers :
            /\ download' =
                   [repository |-> results[itemIdx].repository,
                    path |-> results[itemIdx].path,
                    ret |-> IF d = "url" /\ r \in {"empty", "bytes"}
                            THEN r ELSE "None",
                    reqs |-> IF d = "url" THEN <<"contents", "raw">>
                             ELSE <<"contents">>,
                    raised |-> FALSE]
            /\ pc' = "process"

\* C14: download_file_content never lets a fault out; it returns the body
\* of a content request answered with 200, and None in every other case;
\* the descriptor request and the content request are each made at most
\* once, the content request only after the descriptor request.
C14_DownloadNeverRaises == []DownloadContract /\ [][DownloadStep]_vars

\* C14 witness: a download whose content request failed returned None
\* after two requests, and the loop went on to the next item.
C14_Witness ==
    /\ pc = "process"
    /\ itemIdx = 3
    /\ download.reqs = <<"contents", "raw">>
    /\ download.ret = "None"
    /\ processed[1].local_path
    /\ ~processed[2].local_path

\* C15: _process_search_results tries every item, in order, and returns
\* exactly one record per search result, in the order of the results; the
\* record of an item whose download failed has no local_path.
C15_OneRecordPerResult ==
    /\ pc = "process" =>
           /\ Len(processed) = itemIdx - 1
           /\ \A i \in 1..Len(processed) :
                  /\ processed[i].repository = results[i].repository
                  /\ processed[i].path = results[i].path
                  /\ processed[i].dork = dork
           /\ (Downloaded /\ download.ret = "None") =>
                  ~processed[Len(processed)].local_path
           /\ Downloaded =>
                  /\ download.repository = results[itemIdx - 1].repository
                  /\ download.path = results[itemIdx - 1].path
    /\ (pc = "run_for" /\ dork = 2) =>
           /\ Len(allResults) = Len(results)
           /\ \A i \in 1..Len(allResults) : allResults[i].path = results[i].path

\* C15 witness: three results, the download of the second one failed, and
\* three records were returned.
C15_Witness ==
    /\ pc = "run_for"
    /\ Len(results) = 3
    /\ Len(allResults) = 3
    /\ allResults[1].local_path
    /\ ~allResults[2].local_path
    /\ allResults[3].local_path

\* the guard's and the pagination's variables
GateState ==
    <<page, response, snapshot, now, lastSleep, guardLog, reqPage, requests,
      guards, n403, served>>

\* C25: a download_file_content call issues the descriptor request and at
\* most the content request, never the rate_limit request and never a
\* search request, and leaves the guard's and the pagination's state as
\* they were.
C25_DownloadOutsideGate ==
    [][download' # download /\ download' # NoDownload =>
          /\ \A i \in 1..Len(download'.reqs) :
                 download'.reqs[i] \in {"contents", "raw"}
          /\ UNCHANGED GateState]_vars

\* two files were fetched, the second with both requests, and no guard call
\* and no search request was made
C25_Witness ==
    /\ Len(processed) >= 2
    /\ processed[1].local_path
    /\ download.reqs = <<"contents", "raw">>
    /\ download.ret = "bytes"
    /\ guards = 0
    /\ requests = 0
    /\ guardLog = <<>>

(***************************************************************************)
(* Properties of scan_file.                                                *)
(***************************************************************************)
Scanned == pc = "scanned"

\* the line a finding was made on, the text of its match, and the text
\* after the match with its leading whitespace skipped
LineOf(f) == lines[f.line_number]

MatchOf(f) == SubSeq(LineOf(f), f.start, f.end - 1)

RestOf(f) == lstrip(From(LineOf(f), f.end))

LineNumbersNonDecreasing(fs) ==
    \A i, j \in 1..Len(fs) : i < j => fs[i].line_number <= fs[j].line_number

\* the position of the generic pattern called `name` in the registry
RegistryIndex(name) == CHOOSE i \in 1..Len(patterns) : patterns[i].name = name

\* C16: in the sequence scan_file returns, every finding of the generic
\* pass precedes every finding of the label pass: the sequence is the
\* generic pass's findings followed by the label pass's findings.
C16_PatternPassFirst ==
    Scanned =>
        /\ Len(findings) = Len(patternFindings) + Len(labelFindings)
        /\ \A i \in 1..Len(patternFindings) : findings[i] = patternFindings[i]
        /\ \A j \in 1..Len(labelFindings) :
               findings[Len(patternFindings) + j] = labelFindings[j]

\* C16 witness: a scan with findings of both passes; the first returned
\* finding was made by a generic pattern on line 2, the last one by a label
\* on line 1.
C16_Witness ==
    /\ Scanned
    /\ Len(patternFindings) >= 1
    /\ Len(labelFindings) >= 1
    /\ findings[1].label = Chars("PAT_A")
    /\ findings[Len(findings)].label = Chars("K")
    /\ findings[1].line_number > findings[Len(findings)].line_number

\* C17 (as claimed): within the generic pass and within the label pass the
\* line numbers are non-decreasing along the findings, for any number of
\* registered patterns or labels.
C17_EachPassInLineOrder ==
    Scanned =>
        /\ LineNumbersNonDecreasing(patternFindings)
        /\ LineNumbersNonDecreasing(labelFindings)

\* C17 (amended): the label pass's findings are in line order; the generic
\* pass's findings are grouped by pattern in registry order, and in line
\* order within the findings of one pattern (hence in line order when at
\* most one generic pattern is registered).
C17_LineOrderPerPattern ==
    Scanned =>
        /\ LineNumbersNonDecreasing(labelFindings)
        /\ \A i, j \in 1..Len(patternFindings) :
               i < j =>
                   LET f == patternFindings[i]
                       g == patternFindings[j]
                   IN  /\ RegistryIndex(f.label) <= RegistryIndex(g.label)
                       /\ f.label = g.label => f.line_number <= g.line_number
        /\ Len(patterns) <= 1 => LineNumbersNonDecreasing(patternFindings)

\* C17 witness: two generic patterns and two label patterns registered; the
\* first pattern matched on line 2 only and the second on line 1, so the
\* generic pass's line numbers decrease, while both label patterns matched
\* on both lines.
C17_Witness ==
    /\ Scanned
    /\ Len(patterns) = 2
    /\ Len(labels) = 2
    /\ Len(patternFindings) = 2
    /\ patternFindings[1].line_number = 2
    /\ patternFindings[2].line_number = 1
    /\ Len(labelFindings) = 4
    /\ labelFindings[2].label # labelFindings[1].label
    /\ labelFindings[2].line_number = 1
    /\ labelFindings[3].line_number = 2

\* C18: the matchedText of every label finding is the match, "=" and the
\* value exactly when value extraction succeeded on the text after the
\* match, and the match alone otherwise; the label match db_password on the
\* line db_password = "hunter2" yields db_password=hunter2.
C18_MatchedTextComposition ==
    Scanned =>
        /\ \A i \in 1..Len(labelFindings) :
               LET f == labelFindings[i]
                   v == extract_parameter_value(LineOf(f), f.end,
                                                DefaultMaxLength)
               IN  /\ v.found => f.matched_text = MatchOf(f) \o <<"=">> \o v.value
                   /\ ~v.found => f.matched_text = MatchOf(f)
                   /\ v.found <=> f.matched_text # MatchOf(f)
        /\ \A i \in 1..Len(labelFindings) :
               (/\ LineOf(labelFindings[i]) = Chars("db_password = \"hunter2\"")
                /\ MatchOf(labelFindings[i]) = Chars("db_password"))
                   => labelFindings[i].matched_text = Chars("db_password=hunter2")

\* C18 witness: the scan of the line db_password = "hunter2" with a label
\* whose regex is db_password.
C18_Witness ==
    /\ Scanned
    /\ lines = <<Chars("db_password = \"hunter2\"")>>
    /\ Len(labelFindings) = 1
    /\ MatchOf(labelFindings[1]) = Chars("db_password")
    /\ labelFindings[1].matched_text = Chars("db_password=hunter2")

\* the text s starts directly with a value character: a character that is
\* neither a separator nor excluded from values
StartsWithValue(s) == s # <<>> /\ s[1] \notin (ValueStops \cup {":", "="})

\* the longest run of value characters that starts s
MaximalValueRun(s) == Take(s, RunNotIn(s, ValueStops))

\* C19 (as claimed): the separator run is optional; when the text after the
\* match starts, after leading whitespace, directly with a value character,
\* extraction succeeds with the maximal run of value characters.
C19_SeparatorOptional ==
    Scanned =>
        \A i \in 1..Len(labelFindings) :
            LET f == labelFindings[i]
            IN  StartsWithValue(RestOf(f)) =>
                    f.matched_text =
                        MatchOf(f) \o <<"=">> \o MaximalValueRun(RestOf(f))

\* C19 (amended): the separator is required.  When the text after the
\* match, leading whitespace skipped, is non-empty and starts with neither
\* ':' nor '=', no value is extracted and matchedText is the match alone.
\* When it starts with a run of ':', '=' and whitespace behind which, after
\* an optional quote, a value character stands, the value is the maximal
\* run of value characters from there, cut to its first 100 characters.
C19_SeparatorRequired ==
    Scanned =>
        \A i \in 1..Len(labelFindings) :
            LET f     == labelFindings[i]
                rest  == RestOf(f)
                after == From(rest, RunIn(rest, SeparatorChars) + 1)
                body  == IF /\ Len(after) >= 2
                            /\ after[1] \in Quotes
                            /\ after[2] \notin ValueStops
                         THEN Tail(after) ELSE after
            IN  /\ (rest # <<>> /\ rest[1] \notin {":", "="}) =>
                       f.matched_text = MatchOf(f)
                /\ (rest # <<>> /\ rest[1] \in {":", "="}
                      /\ body # <<>> /\ body[1] \notin ValueStops) =>
                       f.matched_text =
                           MatchOf(f) \o <<"=">> \o
                               Take(MaximalValueRun(body), 100)

\* C19 witness: the label k matched on the line `k vv`: the text after the
\* match starts with a value character and no value was extracted.
C19_Witness ==
    /\ Scanned
    /\ lines = <<Chars("k vv")>>
    /\ Len(labelFindings) = 1
    /\ StartsWithValue(RestOf(labelFindings[1]))
    /\ labelFindings[1].matched_text = Chars("k")

\* the (regex, line, match) occurrences of the regexes of a registry in the
\* file: the k-th match of the regex of entry e on line ln
Occurrences(registry) ==
    UNION {UNION {{<<e, ln, k>> :
                      k \in 1..Len(finditer(registry[e].regex, lines[ln], 1))} :
                  ln \in 1..Len(lines)} :
           e \in 1..Len(registry)}

\* C23: nothing is deduplicated: a scan has as many findings as there are
\* (generic pattern, line, match) occurrences plus (line, label pattern,
\* match) occurrences.
C23_NoDeduplication ==
    (Scanned /\ readable) =>
        Len(findings) =
            Cardinality(Occurrences(patterns)) + Cardinality(Occurrences(labels))

\* one substring is matched by a generic pattern and by a label pattern, and
\* the matches of two generic patterns overlap
C23_Witness ==
    /\ Scanned
    /\ readable
    /\ \E i, j \in 1..Len(patternFindings) :
          /\ patternFindings[i].label # patternFindings[j].label
          /\ patternFindings[i].line_number = patternFindings[j].line_number
          /\ patternFindings[i].start < patternFindings[j].start
          /\ patternFindings[j].start < patternFindings[i].end
    /\ \E i \in 1..Len(patternFindings), j \in 1..Len(labelFindings) :
          /\ patternFindings[i].line_number = labelFindings[j].line_number
          /\ patternFindings[i].start = labelFindings[j].start
          /\ patternFindings[i].end = labelFindings[j].end
    /\ Len(findings) = Len(patternFindings) + Len(labelFindings)

\* the part of a label finding's matchedText after the match and the "="
ValuePart(f) == From(f.matched_text, Len(MatchOf(f)) + 2)

\* C24: the context of every finding has at most maxContextLength characters
\* and is a prefix of the trimmed line; the value part of every label finding
\* with an extracted value has between 1 and 100 characters.
C24_ContextAndValueCapped ==
    Scanned =>
        /\ \A i \in 1..Len(findings) :
               /\ Len(findings[i].context) <= maxContext
               /\ IsPrefix(findings[i].context, strip(LineOf(findings[i])))
        /\ \A i \in 1..Len(labelFindings) :
               LET f == labelFindings[i]
               IN  f.matched_text # MatchOf(f) =>
                       /\ f.matched_text[Len(MatchOf(f)) + 1] = "="
                       /\ Len(ValuePart(f)) >= 1
                       /\ Len(ValuePart(f)) <= 100

\* a value of 101 characters was cut to 100, and the context of its line
\* was cut to maxContextLength
C24_Witness ==
    /\ Scanned
    /\ \E i \in 1..Len(labelFindings) :
          LET f == labelFindings[i]
          IN  /\ Len(ValuePart(f)) = 100
              /\ Len(LineOf(f)) = Len(MatchOf(f)) + 1 + 101
              /\ Len(f.context) = maxContext
              /\ Len(strip(LineOf(f))) > maxContext

(***************************************************************************)
(* Properties of classify_severity.                                        *)
(***************************************************************************)
Classified == pc = "classified"

\* the uppercased label contains a HIGH keyword, a MEDIUM keyword
HasHigh(lb) ==
    \E h \in {high_indicators[k] : k \in 1..Len(high_indicators)} :
        Contains(label_upper_of(lb), h)

HasMedium(lb) ==
    \E m \in {medium_indicators[k] : k \in 1..Len(medium_indicators)} :
        Contains(label_upper_of(lb), m)

\* C20: classify_severity returns, for every label and for a missing one,
\* exactly one of HIGH, MEDIUM, LOW: HIGH whenever the uppercased label
\* contains a HIGH keyword, also next to a MEDIUM keyword; MEDIUM when it
\* contains a MEDIUM keyword and no HIGH keyword; LOW otherwise; and the
\* same as for the uppercased label itself.
C20_SeverityTotalHighFirst ==
    Classified =>
        /\ severity \in {"HIGH", "MEDIUM", "LOW"}
        /\ severity = "HIGH" <=> HasHigh(label)
        /\ severity = "MEDIUM" <=> (HasMedium(label) /\ ~HasHigh(label))
        /\ severity = "LOW" <=> (~HasMedium(label) /\ ~HasHigh(label))
        /\ classify_severity([present |-> TRUE,
                              text |-> label_upper_of(label)]) = severity
        /\ label.text = Chars("AWS_SECRET_PASSWORD") => severity = "HIGH"
        /\ (~label.present \/ label.text = <<>>) => severity = "LOW"

\* C20 witness: AWS_SECRET_PASSWORD, which contains keywords of both sets,
\* was classified HIGH.
C20_Witness ==
    /\ Classified
    /\ label = [present |-> TRUE, text |-> Chars("AWS_SECRET_PASSWORD")]
    /\ HasHigh(label)
    /\ HasMedium(label)
    /\ severity = "HIGH"

\* the uppercased label contains the text `word`
LabelContains(word) == Contains(label_upper_of(label), Chars(word))

\* C29: the MEDIUM keyword GITHUB_TOKEN never decides: a label containing
\* GITHUB_TOKEN contains TOKEN and is HIGH, a label containing
\* AWS_ACCESS_KEY is HIGH, and every label classified MEDIUM contains a
\* MEDIUM keyword other than GITHUB_TOKEN.
C29_GithubTokenNeverDecides ==
    Classified =>
        /\ LabelContains("GITHUB_TOKEN") =>
               (LabelContains("TOKEN") /\ severity = "HIGH")
        /\ LabelContains("AWS_ACCESS_KEY") => severity = "HIGH"
        /\ severity = "MEDIUM" =>
               \E w \in {"PASSWORD", "PASS", "JWT", "API", "ACCESS_KEY", "OAUTH"} :
                   LabelContains(w)

\* C29 witness: github_token, whose only keywords are GITHUB_TOKEN and
\* TOKEN, was classified HIGH.
C29_Witness ==
    /\ Classified
    /\ label = [present |-> TRUE, text |-> Chars("github_token")]
    /\ LabelContains("GITHUB_TOKEN")
    /\ ~LabelContains("AWS")
    /\ ~LabelContains("SECRET")
    /\ ~LabelContains("PRIVATE")
    /\ severity = "HIGH"

(***************************************************************************)
(* Properties of the startup.                                              *)
(***************************************************************************)
\* the file holds an entry whose regex source is malformed
HasMalformed(file) ==
    \E i \in 1..Len(file.entries) : ~file.entries[i].source.wellformed

\* C21 (as claimed): a malformed generic pattern or label regex makes the
\* startup fail: the application never becomes ready to run with a
\* configuration file that holds a malformed entry.
C21_MalformedRejected ==
    pc = "started" => (~HasMalformed(patternsFile) /\ ~HasMalformed(labelsFile))

(***************************************************************************)
(* Properties of the persistence writes.                                   *)
(***************************************************************************)
Tables == <<searchHistory, downloadedFiles, findingRows>>

\* this step repeats the write made just before it: the same operation with
\* the same arguments, both carried out by sqlite
RepeatedWrite ==
    /\ Len(writeLog) >= 1
    /\ Len(writeLog') = Len(writeLog) + 1
    /\ LET first  == writeLog[Len(writeLog)]
           second == writeLog'[Len(writeLog')]
       IN  /\ first.op = second.op
           /\ first.args = second.args
           /\ ~first.failed
           /\ ~second.failed

\* C22: every persistence write is idempotent by key: a write applied a
\* second time with the same arguments leaves the rows that the first
\* application left.
C22_WritesIdempotent == [][RepeatedWrite => UNCHANGED Tables]_vars

\* every write that failed in sqlite returned None and raised nothing
FailedWritesAbsorbed ==
    \A i \in 1..Len(writeLog) :
        /\ ~writeLog[i].raised
        /\ writeLog[i].failed <=> writeLog[i].ret = "None"

\* this step made a write that failed in sqlite
FailedWriteStep ==
    /\ Len(writeLog') = Len(writeLog) + 1
    /\ writeLog'[Len(writeLog')].failed

\* after a failed record_search the items of the dork are processed; after
\* a failed record_downloaded_file the item's record is appended and the
\* next item is the current one
BatchContinues ==
    LET w == writeLog'[Len(writeLog')]
    IN  IF w.op = "record_search"
        THEN /\ pc' = "process"
             /\ itemIdx' = 1
             /\ dork' = dork
        ELSE /\ pc' = "process"
             /\ itemIdx' = itemIdx + 1
             /\ Len(processed') = Len(processed) + 1
             /\ dork' = dork

\* C26: a persistence write that fails returns an absent id and raises
\* nothing, and the batch goes on with the next item and the next dork: the
\* run never ends in main()'s handler, and the step of a failed write leads
\* to the items of the dork or to the next item.
C26_WriteFailureNotFatal ==
    /\ [](FailedWritesAbsorbed /\ pc # "exit_fatal")
    /\ [][FailedWriteStep => BatchContinues]_vars

\* every write of a dork with two saved files failed, and the search of the
\* next dork has begun
C26_Witness ==
    /\ pc = "sc_while"
    /\ dork = 2
    /\ Len(writeLog) = 3
    /\ \A i \in 1..Len(writeLog) : writeLog[i].failed
    /\ Len(allResults) = 2
    /\ \A i \in 1..Len(allResults) : allResults[i].local_path

(***************************************************************************)
(* Properties of the batch.                                                *)
(***************************************************************************)
RunEnded == pc \in {"exit_ok", "exit_fatal"}

\* C6 (as claimed): when the run has ended, every dork after one whose
\* search got a non-success status other than 403 has been searched.
C6_LaterDorksSearched ==
    RunEnded =>
        \A d \in 1..MaxDorks :
            cause[d] = "status" =>
                \A e \in (d + 1)..MaxDorks : outcome[e] # "none"

\* C7 (as claimed): a search that a transport failure aborted is seen by
\* run() as an error, not as a returned list.
C7_TransportFailureSurfaced ==
    \A d \in 1..MaxDorks :
        (cause[d] = "transport" /\ outcome[d] # "none") => outcome[d] = "raised"

\* the search and the downloads of dork d are over
DorkCompleted(d) == outcome[d] = "returned" /\ dork > d

\* C30: the summary, the CSV export, the analysis and the reports start only
\* when search and download are over for every dork; a run that a search
\* error ended has none of them, whatever was downloaded and recorded for
\* the dorks before.
C30_AnalysisAfterAllDorks ==
    /\ phases # <<>> =>
           (pc = "exit_ok" /\ \A d \in 1..MaxDorks : DorkCompleted(d))
    /\ pc = "exit_fatal" => phases = <<>>
    /\ (\E d \in 1..MaxDorks : outcome[d] = "raised") =>
           (pc = "exit_fatal" /\ phases = <<>>)

\* C30 witness: the search of the second dork raised after a file of the
\* first dork was downloaded and recorded, and the run ended without
\* summary, export, analysis or report.
C30_Witness ==
    /\ pc = "exit_fatal"
    /\ outcome[1] = "returned"
    /\ outcome[2] = "raised"
    /\ Len(allResults) >= 1
    /\ allResults[1].local_path
    /\ downloadedFiles # {}
    /\ searchHistory # <<>>
    /\ phases = <<>>

=============================================================================
